---------------------------- MODULE Spec2Model ----------------------------
(***************************************************************************)
(* A model of the interval algebra and the ordered container of striplog: *)
(* striplog/position.py, striplog/interval.py and striplog/striplog.py.    *)
(*                                                                         *)
(* A Position is modelled by its z (its `middle`); the coordinates are     *)
(* integers standing for the floats of the program on a regular grid.  An  *)
(* Interval is a record [top, base, comps]: comps is the list of its       *)
(* components.  The component c is one whose text attribute (its lithology)*)
(* is the c-th name and whose number attribute `prio` is c: two components *)
(* are equal, as Component.__eq__ has it, when their texts are.            *)
(* A Striplog is the pair of the variables list and order.                 *)
(***************************************************************************)
EXTENDS Integers, Sequences, FiniteSets, TLC

VARIABLES
    list,     \* Striplog.__list : the sequence of Intervals; <<>> before construction
    order,    \* Striplog.order  : "depth", "elevation", "none"; "unset" before construction
    call      \* the last operation called: its name, its arguments and what it returned

vars == <<list, order, call>>

-----------------------------------------------------------------------------
(* Bounds of the model *)

NewZ == 2        \* construction: coordinates range over 0..NewZ
NewLen == 3      \* construction: longest interval list given to the constructor

Interval(top, base, components) == [top |-> top, base |-> base, comps |-> components]

\* every Interval over the grid 0..n, whatever its way up, with components from C
IntervalsOver(n, C) == {Interval(t, b, c) : t \in 0..n, b \in 0..n, c \in C}

\* every list of at most n elements of S
SeqsUpTo(S, n) == UNION {[1..k -> S] : k \in 0..n}

-----------------------------------------------------------------------------
(* Outcomes: a value returned, or an exception raised *)

Raise(kind) == [err |-> kind]
Return(v) == [err |-> "none", val |-> v]
Raised(r) == r.err # "none"

\* Python's None as a returned value
None == [tag |-> "None"]

\* the value of F at x, with x worked out once
With(x, F(_)) == CHOOSE r \in {F(v) : v \in {x}} : TRUE

Abs(x) == IF x < 0 THEN -x ELSE x
Min2(x, y) == IF x <= y THEN x ELSE y
Max2(x, y) == IF x >= y THEN x ELSE y

-----------------------------------------------------------------------------
(* striplog/interval.py *)

thickness(iv) == Abs(iv.base - iv.top)

\* Interval.kind: 'point' when the thickness is greater than 0
kind(iv) == IF thickness(iv) > 0 THEN "point" ELSE "interval"

\* Interval.order: a point (top = base) reads as 'depth'
IvOrder(iv) == IF iv.top > iv.base THEN "elevation" ELSE "depth"

primary(iv) == IF iv.comps # <<>> THEN Return(iv.comps[1]) ELSE Return("None")

\* Interval.__eq__, __lt__ and the __gt__ that functools.total_ordering derives
IvEq(self, other) == self.top = other.top
IvLt(self, other) ==
    IF IvOrder(self) = "elevation" THEN self.top < other.top ELSE self.top > other.top
IvGt(self, other) == ~IvLt(self, other) /\ ~IvEq(self, other)

\* the builtins max(a, b) and min(a, b): the first argument wins a tie
PyMax(a, b) == IF IvGt(b, a) THEN b ELSE a
PyMin(a, b) == IF IvLt(b, a) THEN b ELSE a

\* operator.lt for 'depth', operator.gt for 'elevation'
StrictOp(ord, x, y) == IF ord = "depth" THEN x < y ELSE x > y
\* operator.le for 'depth', operator.ge for 'elevation'
LooseOp(ord, x, y) == IF ord = "depth" THEN x <= y ELSE x >= y

relationship(self, other) ==
    LET ord == IvOrder(self)
        top_inside == StrictOp(ord, self.top, other.top) /\ StrictOp(ord, other.top, self.base)
        base_inside == StrictOp(ord, self.top, other.base) /\ StrictOp(ord, other.base, self.base)
        above_below == StrictOp(ord, other.top, self.top) /\ StrictOp(ord, self.base, other.base)
    IN  IF top_inside /\ base_inside THEN "contains"
        ELSE IF above_below THEN "containedby"
        ELSE IF top_inside \/ base_inside THEN "partially"
        ELSE IF (self.top = other.base) \/ (self.base = other.top) THEN "touches"
        ELSE "None"

Overlaps == {"partially", "contains", "containedby"}

_overlaps(self, other, rel) ==
    LET r == relationship(self, other)
    IN  r # "None" /\ ((r = rel) \/ (rel = "any" /\ r \in Overlaps))

any_overlaps(self, other) == _overlaps(self, other, "any")
partially_overlaps(self, other) == _overlaps(self, other, "partially")
completely_contains(self, other) == _overlaps(self, other, "contains")
is_contained_by(self, other) == _overlaps(self, other, "containedby")
touches(self, other) == _overlaps(self, other, "touches")

spans(self, d) ==
    LooseOp(IvOrder(self), d, self.base) /\ LooseOp(IvOrder(self), self.top, d)

\* returns the pair <<upper, lower>>, or raises IntervalError
split_at(self, d) ==
    IF ~spans(self, d) THEN Raise("IntervalError")
    ELSE Return(<<[self EXCEPT !.base = d], [self EXCEPT !.top = d]>>)

\* an uppermost that is always self
uppermost_is_self(self, other) == self

\* max(self, other) and min(self, other), as _explode calls them
uppermost_of(self, other) == PyMax(self, other)
lowermost_of(self, other) == PyMin(self, other)

\* returns [upper, middle, lower], or raises IntervalError
_explode(self, other) ==
    IF IvOrder(self) # IvOrder(other) THEN Raise("IntervalError")
    ELSE
    LET uppermost == uppermost_of(self, other)
        lowermost == lowermost_of(self, other)
    IN  IF partially_overlaps(self, other) THEN
            LET s1 == split_at(uppermost, lowermost.top)
                s2 == split_at(lowermost, uppermost.base)
            IN  IF Raised(s1) THEN s1
                ELSE IF Raised(s2) THEN s2
                ELSE Return([upper |-> s1.val[1], middle |-> s2.val[1], lower |-> s2.val[2]])
        ELSE
            LET s1 == split_at(uppermost, lowermost.base)
            IN  IF Raised(s1) THEN s1
                ELSE LET s2 == split_at(s1.val[1], lowermost.top)
                     IN  IF Raised(s2) THEN s2
                         ELSE Return([upper |-> s2.val[1], middle |-> lowermost,
                                      lower |-> s1.val[2]])

\* the components of old_self followed by those of other it does not have
RECURSIVE BlendComponents(_, _)
BlendComponents(mine, others) ==
    IF others = <<>> THEN mine
    ELSE IF \E i \in 1..Len(mine) : mine[i] = Head(others)
         THEN BlendComponents(mine, Tail(others))
         ELSE BlendComponents(Append(mine, Head(others)), Tail(others))

\* Interval._blend_descriptions divides by the sum of the two thicknesses
\* before anything else: two points raise ZeroDivisionError
blend_divides_by_zero(self, other) == thickness(self) + thickness(other) = 0

\* Interval._combine: self takes the combined, or other's, content
_combine(self, old_self, other, blend) ==
    IF blend THEN
        IF blend_divides_by_zero(old_self, other) THEN Raise("ZeroDivisionError")
        ELSE Return([self EXCEPT !.comps = BlendComponents(old_self.comps, other.comps)])
    ELSE Return([self EXCEPT !.comps = other.comps])

\* Interval.union: one Interval, or the untouched pair
union(self, other, blend) ==
    IF ~(touches(self, other) \/ any_overlaps(self, other))
    THEN Return([tag |-> "pair", items |-> <<self, other>>])
    ELSE LET top == IF IvOrder(self) = "elevation"
                    THEN Max2(self.top, other.top) ELSE Min2(self.top, other.top)
             bot == IF IvOrder(self) = "elevation"
                    THEN Min2(self.base, other.base) ELSE Max2(self.base, other.base)
             result == [self EXCEPT !.top = top, !.base = bot]
             combined == _combine(result, self, other, blend)
         IN  IF Raised(combined) THEN combined
             ELSE Return([tag |-> "interval", iv |-> combined.val])

\* Interval.intersect: the middle piece of _explode with the combined content,
\* or IntervalError without an overlap
intersect(self, other, blend) ==
    IF ~any_overlaps(self, other) THEN Raise("IntervalError")
    ELSE With(_explode(self, other), LAMBDA ex :
             IF Raised(ex) THEN ex
             ELSE _combine(ex.val.middle, self, other, blend))

\* Interval.difference: self itself, the pair (upper, lower), one piece of
\* self, or None
difference(self, other) ==
    IF touches(self, other) \/ ~any_overlaps(self, other)
    THEN Return([tag |-> "interval", iv |-> self])
    ELSE IF completely_contains(self, other) THEN
        With(_explode(self, other), LAMBDA ex :
            IF Raised(ex) THEN ex
            ELSE Return([tag |-> "pair", items |-> <<ex.val.upper, ex.val.lower>>]))
    ELSE IF IvGt(self, other) THEN
        With(split_at(self, other.top), LAMBDA s :
            IF Raised(s) THEN s ELSE Return([tag |-> "interval", iv |-> s.val[1]]))
    ELSE IF IvLt(self, other) THEN
        With(split_at(self, other.base), LAMBDA s :
            IF Raised(s) THEN s ELSE Return([tag |-> "interval", iv |-> s.val[2]]))
    ELSE Return(None)

\* a value of a data map: a list of items, or one item that is not a list
Scalar(v) == [list |-> FALSE, items |-> <<v>>]
AList(items) == [list |-> TRUE, items |-> items]

\* utils.list_and_add: both coerced to lists and concatenated
list_and_add(a, b) == AList(a.items \o b.items)

\* Interval._combine_data on two data dicts: the loop goes over the keys of
\* other's data
_combine_data(self_data, other_data) ==
    [k \in DOMAIN other_data |->
        IF k \in DOMAIN self_data THEN list_and_add(self_data[k], other_data[k])
        ELSE other_data[k]]

\* Interval._combine, the data it leaves in the result
combined_data(self_data, other_data, blend) ==
    IF blend THEN _combine_data(self_data, other_data) ELSE other_data

-----------------------------------------------------------------------------
(* striplog/interval.py: objects and references.  A heap holds the          *)
(* Position, dict and list objects; an Interval object holds the places of *)
(* its top, base, data and components in the heap.                         *)

\* Position(middle, upper, lower)
Position(middle, upper, lower) == [middle |-> middle, upper |-> upper, lower |-> lower]

\* Position.invert: upper and lower change places, in place
Position_invert(h, p) ==
    [h EXCEPT !.pos[p] = Position(@.middle, @.lower, @.upper)]

\* Interval.__init__ handed a Position for top and for base, a dict and a
\* list: the Positions are kept as they are, `data or {}` keeps a dict that
\* is not empty, and list(components) is a new list
Interval_init(h, top, base, data, components) ==
    LET fresh == h.data[data] = {}
        h1 == IF fresh THEN [h EXCEPT !.data = Append(@, {})] ELSE h
        h2 == [h1 EXCEPT !.comps = Append(@, h.comps[components])]
    IN  [heap |-> h2,
         obj |-> [top |-> top, base |-> base,
                  data |-> IF fresh THEN Len(h1.data) ELSE data,
                  comps |-> Len(h2.comps)]]

\* Interval.copy: Interval(**self.__dict__.copy())
Interval_copy(h, iv) == Interval_init(h, iv.top, iv.base, iv.data, iv.comps)

\* Interval.__setattr__ for top or base with a number: a new Position
set_top(h, iv, z) ==
    [heap |-> [h EXCEPT !.pos = Append(@, Position(z, z, z))],
     obj |-> [iv EXCEPT !.top = Len(h.pos) + 1]]
set_base(h, iv, z) ==
    [heap |-> [h EXCEPT !.pos = Append(@, Position(z, z, z))],
     obj |-> [iv EXCEPT !.base = Len(h.pos) + 1]]

\* Interval.invert() in place: both Positions are inverted, then top and
\* base change places
Interval_invert(h, iv) ==
    [heap |-> Position_invert(Position_invert(h, iv.base), iv.top),
     obj |-> [iv EXCEPT !.top = iv.base, !.base = iv.top]]

\* iv.data[k] = ... and iv.components.append(c)
add_data(h, iv, k) == [heap |-> [h EXCEPT !.data[iv.data] = @ \cup {k}], obj |-> iv]
add_component(h, iv, c) ==
    [heap |-> [h EXCEPT !.comps[iv.comps] = Append(@, c)], obj |-> iv]

\* Interval.split_at(d) for a d the interval spans: two copies, the first
\* with base d and the second with top d
split_pieces(h, iv, d) ==
    LET int1 == Interval_copy(h, iv)
        int2 == Interval_copy(int1.heap, iv)
        cut1 == set_base(int2.heap, int1.obj, d)
        cut2 == set_top(cut1.heap, int2.obj, d)
    IN  [heap |-> cut2.heap, upper |-> cut1.obj, lower |-> cut2.obj]

\* what an Interval object shows: its Positions, its data and its components
Shown(h, iv) ==
    [top |-> h.pos[iv.top], base |-> h.pos[iv.base],
     data |-> h.data[iv.data], comps |-> h.comps[iv.comps]]

-----------------------------------------------------------------------------
(* striplog/striplog.py: construction *)

\* list.sort(key=attrgetter('top'), reverse=rev) is stable: the place seq[i]
\* takes is after the elements that go before it and after the equal ones
\* that came before it
SortedPlace(seq, i, rev) ==
    Cardinality({j \in 1..Len(seq) :
        \/ IF rev THEN seq[j].top > seq[i].top ELSE seq[j].top < seq[i].top
        \/ seq[j].top = seq[i].top /\ j <= i})

\* a sort that forgets `reverse`
SortByTopNoReverse(seq, rev) ==
    [p \in 1..Len(seq) |-> seq[CHOOSE i \in 1..Len(seq) : SortedPlace(seq, i, FALSE) = p]]

SortByTop(seq, rev) ==
    [p \in 1..Len(seq) |-> seq[CHOOSE i \in 1..Len(seq) : SortedPlace(seq, i, rev) = p]]

AllOf(seq, P(_)) == \A i \in 1..Len(seq) : P(seq[i])
AnyOf(seq, P(_)) == \E i \in 1..Len(seq) : P(seq[i])

IsPoint(iv) == iv.base = iv.top
BaseGeTop(iv) == iv.base >= iv.top
BaseLeTop(iv) == iv.base <= iv.top

\* an auto-detection that tests 'depth' before 'none'
AutoOrderDepthFirst(list_of_Intervals) ==
    IF AllOf(list_of_Intervals, BaseGeTop) THEN "depth"
    ELSE IF AllOf(list_of_Intervals, IsPoint) THEN "none"
    ELSE IF AllOf(list_of_Intervals, BaseLeTop) THEN "elevation"
    ELSE "fail"

\* the order 'auto' resolves to; "fail" is the StriplogError
AutoOrder(list_of_Intervals) ==
    IF AllOf(list_of_Intervals, IsPoint) THEN "none"
    ELSE IF AllOf(list_of_Intervals, BaseGeTop) THEN "depth"
    ELSE IF AllOf(list_of_Intervals, BaseLeTop) THEN "elevation"
    ELSE "fail"

\* Striplog.__init__: returns [list, order], or raises StriplogError
Striplog(list_of_Intervals, ord) ==
    IF list_of_Intervals = <<>> THEN Raise("StriplogError")
    ELSE LET o2 == IF ord = "auto" THEN AutoOrder(list_of_Intervals) ELSE ord
         IN  IF o2 = "fail" THEN Raise("StriplogError")
             ELSE IF o2 = "none" THEN
                 IF AnyOf(list_of_Intervals, LAMBDA iv : iv.base # iv.top)
                 THEN Raise("StriplogError")
                 ELSE Return([list |-> SortByTop(list_of_Intervals, FALSE), order |-> "none"])
             ELSE IF o2 = "depth" THEN
                 IF AnyOf(list_of_Intervals, LAMBDA iv : iv.base < iv.top)
                 THEN Raise("StriplogError")
                 ELSE Return([list |-> SortByTop(list_of_Intervals, FALSE), order |-> "depth"])
             ELSE
                 IF AnyOf(list_of_Intervals, LAMBDA iv : iv.base > iv.top)
                 THEN Raise("StriplogError")
                 ELSE Return([list |-> SortByTop(list_of_Intervals, TRUE), order |-> "elevation"])

Orders == {"auto", "depth", "elevation", "none"}

-----------------------------------------------------------------------------
(* striplog/striplog.py: the container.  Indices are Python's, from 0.     *)

AStriplog(l, o) == [tag |-> "striplog", list |-> l, order |-> o]

\* the Striplog built from a list with order='auto', as a returned value
NewStriplog(list_of_Intervals) ==
    With(Striplog(list_of_Intervals, "auto"),
         LAMBDA r : IF Raised(r) THEN r ELSE Return(AStriplog(r.val.list, r.val.order)))

\* the elements of a finite set of integers, ascending
RECURSIVE SortedSeq(_)
SortedSeq(S) ==
    IF S = {} THEN <<>>
    ELSE LET m == CHOOSE x \in S : \A y \in S : x <= y
         IN  <<m>> \o SortedSeq(S \ {m})

\* list.insert(index, x) for index >= 0: an index past the end appends
PyInsert(seq, index, x) ==
    LET k == Min2(index, Len(seq))
    IN  SubSeq(seq, 1, k) \o <<x>> \o SubSeq(seq, k + 1, Len(seq))

\* del list[index] and list.pop(index): a negative index counts from the end
PyDel(seq, index) ==
    LET k == IF index < 0 THEN index + Len(seq) ELSE index
    IN  IF k < 0 \/ k >= Len(seq) THEN Raise("IndexError")
        ELSE Return(SubSeq(seq, 1, k) \o SubSeq(seq, k + 2, Len(seq)))

\* Striplog.__getitem__ with the slice [:-1]: a new Striplog, or None
getitem_front(lst) ==
    IF Len(lst) <= 1 THEN Return(None)
    ELSE NewStriplog(SubSeq(lst, 1, Len(lst) - 1))

\* Striplog.__find_incongruities: gt is TRUE for operator.gt (overlaps) and
\* FALSE for operator.lt (gaps).  Returns None, the hits or a Striplog.
find_incongruities(lst, ord, gt, index) ==
    IF Len(lst) = 1 THEN Return(None)
    ELSE With(getitem_front(lst), LAMBDA front :
        IF Raised(front) THEN front
        ELSE IF front.val = None THEN Raise("TypeError")
        ELSE
        LET one(iv) == IF ord = "depth" THEN iv.base ELSE iv.top
            two(iv) == IF ord = "depth" THEN iv.top ELSE iv.base
            hit(i) == IF gt THEN one(front.val.list[i + 1]) > two(lst[i + 2])
                      ELSE one(front.val.list[i + 1]) < two(lst[i + 2])
        IN  With(SortedSeq({i \in 0..(Len(lst) - 2) : hit(i)}), LAMBDA hits :
            LET intervals == [k \in 1..Len(hits) |->
                                 Interval(one(front.val.list[hits[k] + 1]),
                                          two(lst[hits[k] + 2]), <<>>)]
            IN  IF index /\ hits # <<>> THEN Return([tag |-> "hits", hits |-> hits])
                ELSE IF intervals # <<>> THEN NewStriplog(intervals)
                ELSE Return(None)))

find_overlaps(lst, ord, index) == find_incongruities(lst, ord, TRUE, index)
find_gaps(lst, ord, index) == find_incongruities(lst, ord, FALSE, index)

\* reversed list
Reverse(seq) == [i \in 1..Len(seq) |-> seq[Len(seq) + 1 - i]]

\* Interval.merge: returns a Striplog of two or three pieces, or raises
merge_intervals(self, other, blend) ==
    IF ~any_overlaps(self, other) THEN Raise("IntervalError")
    ELSE With(_explode(self, other), LAMBDA ex :
        IF Raised(ex) THEN ex
        ELSE With(_combine(ex.val.middle, self, other, blend), LAMBDA middle :
            LET upper == ex.val.upper
                lower == ex.val.lower
                self_is_uppermost == self.top = upper.top
                result == IF partially_overlaps(self, other) /\ ~blend
                          THEN IF self_is_uppermost THEN <<upper, other>>
                               ELSE <<other, lower>>
                          ELSE <<lower, middle.val, upper>>
            IN  IF Raised(middle) THEN middle
                ELSE IF IvOrder(self) = "depth" THEN NewStriplog(Reverse(result))
                ELSE NewStriplog(result)))

\* Striplog.insert of a Striplog: its intervals go in at index, index+1, ...
RECURSIVE insert_all(_, _, _)
insert_all(lst, index, items) ==
    IF items = <<>> THEN lst
    ELSE insert_all(PyInsert(lst, index, Head(items)), index + 1, Tail(items))

\* the state a call leaves the list in, and how the call ended
Left(lst, err) == [list |-> lst, err |-> err]

\* the loop of merge_overlaps over the array of overlaps; `shift` is what
\* `overlaps += 1` has added to the entries not yet visited
RECURSIVE merge_overlaps_loop(_, _, _)
merge_overlaps_loop(lst, todo, shift) ==
    IF todo = <<>> THEN Left(lst, "none")
    ELSE
    LET overlap == Head(todo) + shift
    IN  IF overlap + 1 >= Len(lst) THEN Left(lst, "IndexError")
        ELSE
        LET before == lst[overlap + 1]
            after == lst[overlap + 2]
            rest == SubSeq(lst, 1, overlap) \o SubSeq(lst, overlap + 3, Len(lst))
        IN  With(merge_intervals(before, after, TRUE), LAMBDA new_segment :
                IF Raised(new_segment) THEN Left(rest, new_segment.err)
                ELSE With(insert_all(rest, overlap, new_segment.val.list), LAMBDA spliced :
                         merge_overlaps_loop(spliced, Tail(todo), shift + 1)))

\* numpy's array.any(): some entry is not zero
any_nonzero(a) == \E i \in 1..Len(a) : a[i] # 0

\* Striplog.merge_overlaps: in place
merge_overlaps(lst, ord) ==
    With(find_overlaps(lst, ord, TRUE), LAMBDA found :
        IF Raised(found) THEN Left(lst, found.err)
        ELSE IF found.val.tag # "hits" THEN Left(lst, "none")
        ELSE IF ~any_nonzero(found.val.hits) THEN Left(lst, "none")
        ELSE merge_overlaps_loop(lst, found.val.hits, 0))

\* Striplog.insert of an Interval
insert(lst, index, item) == Left(PyInsert(lst, index, item), "none")

\* Striplog.insert of a Striplog
insert_striplog(lst, index, items) == Left(insert_all(lst, index, items), "none")

\* Striplog.append
append(lst, item) == Left(Append(lst, item), "none")

\* Striplog.extend
extend(lst, items) == Left(lst \o items, "none")

\* Striplog.pop
pop(lst, index) ==
    LET r == PyDel(lst, index)
    IN  IF Raised(r) THEN Left(lst, r.err) ELSE Left(r.val, "none")

\* Striplog.__setitem__ with an integer key: the key 0 is falsy and returns
setitem(lst, key, value) ==
    IF key = 0 THEN Left(lst, "none")
    ELSE IF key >= Len(lst) THEN Left(lst, "IndexError")
    ELSE Left([lst EXCEPT ![key + 1] = value], "none")

\* the loop of __setitem__ over a list of keys, from the i-th (from 1)
RECURSIVE setitem_loop(_, _, _, _)
setitem_loop(lst, keys, values, i) ==
    IF i > Len(keys) THEN Left(lst, "none")
    ELSE IF i > Len(values) \/ keys[i] >= Len(lst) THEN Left(lst, "StriplogError")
    ELSE setitem_loop([lst EXCEPT ![keys[i] + 1] = values[i]], keys, values, i + 1)

\* Striplog.__setitem__ with a list of keys and a list of values
setitem_list(lst, keys, values) ==
    IF keys = <<>> THEN Left(lst, "none") ELSE setitem_loop(lst, keys, values, 1)

\* Striplog.__delitem__ with an integer key
delitem(lst, key) == pop(lst, key)

\* Striplog.__delitem__ with a list of keys: the i-th (from 0) is deleted at
\* keys[i] - i
RECURSIVE delitem_loop(_, _, _)
delitem_loop(lst, keys, i) ==
    IF i >= Len(keys) THEN Left(lst, "none")
    ELSE LET r == PyDel(lst, keys[i + 1] - i)
         IN  IF Raised(r) THEN Left(lst, "IndexError")
             ELSE delitem_loop(r.val, keys, i + 1)

delitem_list(lst, keys) == delitem_loop(lst, keys, 0)

\* Interval.invert: top and base change places
invert_interval(iv) == [iv EXCEPT !.top = iv.base, !.base = iv.top]

\* Striplog.__sort: ascending tops, whatever the order
sort_list(lst) == SortByTop(lst, FALSE)

\* Striplog.invert in place: [list, order, err]; 'none' has no opposite
invert(lst, ord) ==
    LET inverted == sort_list([i \in 1..Len(lst) |-> invert_interval(lst[i])])
    IN  IF ord = "depth" THEN [list |-> inverted, order |-> "elevation", err |-> "none"]
        ELSE IF ord = "elevation" THEN [list |-> inverted, order |-> "depth", err |-> "none"]
        ELSE [list |-> inverted, order |-> ord, err |-> "KeyError"]

\* Striplog.read_at(d, index=True): the first interval spanning d, or None
read_at(lst, d) ==
    LET S == {i \in 0..(Len(lst) - 1) : spans(lst[i + 1], d)}
    IN  IF S = {} THEN None
        ELSE [tag |-> "index", ix |-> CHOOSE i \in S : \A j \in S : i <= j]

\* Striplog.crop to (lo, hi): the new list, or an exception
crop_list(lst, lo, hi) ==
    LET first_ix == read_at(lst, lo)
        last_ix == read_at(lst, hi)
    IN  IF first_ix = None THEN Raise("TypeError")
        ELSE IF last_ix = None THEN Raise("TypeError")
        ELSE
        LET first == split_at(lst[first_ix.ix + 1], lo).val[2]
            last == split_at(lst[last_ix.ix + 1], hi).val[1]
            new_list == SubSeq(lst, first_ix.ix + 1, last_ix.ix + 1)
        IN  IF new_list = <<>> THEN Raise("IndexError")
            ELSE Return([[new_list EXCEPT ![1] = first] EXCEPT ![Len(new_list)] = last])

\* Striplog.crop in place
crop(lst, lo, hi) ==
    LET r == crop_list(lst, lo, hi)
    IN  IF Raised(r) THEN Left(lst, r.err) ELSE Left(r.val, "none")

\* Striplog.crop with copy=True: a new Striplog of the new list
crop_copy(lst, lo, hi) ==
    With(crop_list(lst, lo, hi), LAMBDA r :
        IF Raised(r) THEN r ELSE NewStriplog(r.val))

\* x / 2 on floats; exact in the model when x is even
Half(x) == x \div 2

\* one turn of the loop of anneal: the gap after the interval at index gap
anneal_gap(strip, ord, gap, mode) ==
    LET before == strip[gap + 1]
        after == strip[gap + 2]
        t == Half(after.top - before.base)
    IN  IF mode = "middle" THEN
            IF ord = "depth"
            THEN Left([strip EXCEPT ![gap + 1].base = before.base + t,
                                    ![gap + 2].top = after.top - t], "none")
            ELSE Left(strip, "TypeError")    \* a Position minus a Position
        ELSE IF mode = "down" THEN
            IF ord = "depth"
            THEN Left([strip EXCEPT ![gap + 1].base = after.top], "none")
            ELSE Left([strip EXCEPT ![gap + 1].top = after.base], "none")
        ELSE \* mode = "up"
            IF ord = "depth"
            THEN Left([strip EXCEPT ![gap + 2].top = before.base], "none")
            ELSE Left([strip EXCEPT ![gap + 2].base = before.top], "none")

RECURSIVE anneal_loop(_, _, _, _)
anneal_loop(strip, ord, gaps, mode) ==
    IF gaps = <<>> THEN Left(strip, "none")
    ELSE LET r == anneal_gap(strip, ord, Head(gaps), mode)
         IN  IF r.err # "none" THEN r
             ELSE anneal_loop(r.list, ord, Tail(gaps), mode)

\* Striplog.anneal: works on a deep copy; returns it, or None without gaps
anneal(lst, ord, mode) ==
    LET gaps == find_gaps(lst, ord, TRUE)
    IN  IF Raised(gaps) THEN gaps
        ELSE IF gaps.val.tag # "hits" THEN Return(None)
        ELSE LET r == anneal_loop(lst, ord, gaps.val.hits, mode)
             IN  IF r.err # "none" THEN Raise(r.err)
                 ELSE Return(AStriplog(r.list, ord))

\* Striplog.copy: a Striplog of copies of the intervals, in the same order
copy(lst, ord) == Striplog(lst, ord)

\* sorted(range(len(self)), key=lambda k: self[k].thickness) is stable: the
\* place the index of lst[i] takes
ThinPlace(lst, i) ==
    Cardinality({j \in 1..Len(lst) :
        \/ thickness(lst[j]) < thickness(lst[i])
        \/ thickness(lst[j]) = thickness(lst[i]) /\ j <= i})

\* Striplog.thinnest(n, index=True) for n >= 1: the indices of the n
\* thinnest intervals, the thinnest first
thinnest(lst, n) ==
    LET s == [p \in 1..Len(lst) |->
                 (CHOOSE i \in 1..Len(lst) : ThinPlace(lst, i) = p) - 1]
    IN  SubSeq(s, 1, Min2(n, Len(lst)))

\* `if x in prune: prune.remove(x)` on a list of distinct indices
Without(keys, x) == SelectSeq(keys, LAMBDA k : k # x)

\* Striplog.prune(limit, n, keep_ends) without a percentile; limit = 0 and
\* n = 0 stand for the arguments left out. Works on a copy and returns it.
prune(lst, ord, limit, n, keep_ends) ==
    With(copy(lst, ord), LAMBDA strip :
        IF Raised(strip) THEN strip
        ELSE IF limit = 0 /\ n = 0 THEN Raise("StriplogError")
        ELSE LET l == strip.val.list
                 below == SelectSeq([i \in 1..Len(l) |-> i - 1],
                                    LAMBDA i : thickness(l[i + 1]) < limit)
                 chosen == IF n # 0 THEN thinnest(l, n) ELSE below
                 kept == IF keep_ends
                         THEN Without(Without(chosen, 0), Len(l) - 1)
                         ELSE chosen
             IN  With(delitem_list(l, kept), LAMBDA r :
                     IF r.err # "none" THEN Raise(r.err)
                     ELSE Return(AStriplog(r.list, strip.val.order))))

\* Striplog.union, the inner loop: iv becomes its union with each interval
\* of other that it overlaps
RECURSIVE union_over(_, _, _)
union_over(iv, other, j) ==
    IF j > Len(other) THEN Return(iv)
    ELSE IF any_overlaps(iv, other[j]) THEN
        With(union(iv, other[j], TRUE), LAMBDA u :
            IF Raised(u) THEN u ELSE union_over(u.val.iv, other, j + 1))
    ELSE union_over(iv, other, j + 1)

RECURSIVE Striplog_union_loop(_, _, _, _)
Striplog_union_loop(lst, other, i, result) ==
    IF i > Len(lst) THEN NewStriplog(result)
    ELSE With(union_over(lst[i], other, 1), LAMBDA u :
            IF Raised(u) THEN u
            ELSE Striplog_union_loop(lst, other, i + 1, Append(result, u.val)))

\* Striplog.union: a new Striplog of the unions
Striplog_union(lst, other) == Striplog_union_loop(lst, other, 1, <<>>)

\* Striplog.intersect, the loops: the k-th pair (from 0) is lst[k div m]
\* with other[k mod m]; an IntervalError is passed over
RECURSIVE Striplog_intersect_loop(_, _, _, _)
Striplog_intersect_loop(lst, other, k, result) ==
    IF k >= Len(lst) * Len(other) THEN NewStriplog(result)
    ELSE With(intersect(lst[(k \div Len(other)) + 1], other[(k % Len(other)) + 1], TRUE),
              LAMBDA r :
                IF ~Raised(r)
                THEN Striplog_intersect_loop(lst, other, k + 1, Append(result, r.val))
                ELSE IF r.err = "IntervalError"
                THEN Striplog_intersect_loop(lst, other, k + 1, result)
                ELSE r)

\* Striplog.intersect: a new Striplog of the intersections
Striplog_intersect(lst, other) == Striplog_intersect_loop(lst, other, 0, <<>>)

\* Striplog.__getitem__ with the slice [1:]: a new Striplog, or None
getitem_rest(lst) ==
    IF Len(lst) <= 1 THEN Return(None)
    ELSE NewStriplog(SubSeq(lst, 2, Len(lst)))

\* Striplog.merge_neighbours, the test on the last interval kept and the next
similar(last, lower, strict) ==
    IF strict THEN last.comps = lower.comps ELSE primary(last) = primary(lower)

\* Striplog.merge_neighbours, the loop over self[1:]
RECURSIVE merge_neighbours_loop(_, _, _, _)
merge_neighbours_loop(new_strip, rest, i, strict) ==
    IF i > Len(rest) THEN NewStriplog(new_strip)
    ELSE LET last == new_strip[Len(new_strip)]
             lower == rest[i]
         IN  IF touches(last, lower) /\ similar(last, lower, strict)
             THEN With(union(last, lower, TRUE), LAMBDA u :
                      IF Raised(u) THEN u
                      ELSE merge_neighbours_loop(
                               [new_strip EXCEPT ![Len(new_strip)] = u.val.iv],
                               rest, i + 1, strict))
             ELSE merge_neighbours_loop(Append(new_strip, lower), rest, i + 1, strict)

\* Striplog.merge_neighbours: a new Striplog; iterating over the None that
\* self[1:] is for a single interval raises TypeError
merge_neighbours(lst, strict) ==
    IF lst = <<>> THEN Raise("IndexError")
    ELSE With(getitem_rest(lst), LAMBDA rest :
            IF Raised(rest) THEN rest
            ELSE IF rest.val = None THEN Raise("TypeError")
            ELSE merge_neighbours_loop(<<lst[1]>>, rest.val.list, 1, strict))

\* a sum that keeps only the left operand
add_left_only(lst, other) == NewStriplog(lst)

\* Striplog.__add__ with a Striplog: a new Striplog of both lists
add(lst, other) == NewStriplog(lst \o other)

\* Striplog.start and Striplog.stop, as z: the least top (depth) or base,
\* the greatest base (depth) or top
start(lst, ord) ==
    IF ord = "depth"
    THEN CHOOSE z \in {lst[i].top : i \in 1..Len(lst)} :
             \A i \in 1..Len(lst) : z <= lst[i].top
    ELSE CHOOSE z \in {lst[i].base : i \in 1..Len(lst)} :
             \A i \in 1..Len(lst) : z <= lst[i].base

stop(lst, ord) ==
    IF ord = "depth"
    THEN CHOOSE z \in {lst[i].base : i \in 1..Len(lst)} :
             \A i \in 1..Len(lst) : z >= lst[i].base
    ELSE CHOOSE z \in {lst[i].top : i \in 1..Len(lst)} :
             \A i \in 1..Len(lst) : z >= lst[i].top

\* np.ceil(x / step) for a positive step
CeilDiv(x, step) == -((-x) \div step)

\* Striplog.__getitem__ with the slice [a:b], each an index or None: a new
\* Striplog, or None when the slice is empty
getitem_slice(lst, a, b) ==
    LET n == Len(lst)
        lo == IF a = None THEN 0 ELSE Min2(a.ix, n)
        hi == IF b = None THEN n ELSE Min2(b.ix, n)
    IN  IF hi <= lo THEN Return(None)
        ELSE NewStriplog(SubSeq(lst, lo + 1, hi))

\* result[a:b] = v on an array: a negative bound counts from the end, and
\* bounds are clipped to the array
PySliceSet(arr, a, b, v) ==
    LET n == Len(arr)
        norm(x) == IF x < 0 THEN Max2(x + n, 0) ELSE Min2(x, n)
    IN  [i \in 1..n |-> IF norm(a) <= i - 1 /\ i - 1 < norm(b) THEN v ELSE arr[i]]

\* (table.index(c) + 1), or undefined on the ValueError of a missing c
table_key(table, c, undefined) ==
    IF \E k \in 1..Len(table) : table[k] = c
    THEN CHOOSE k \in 1..Len(table) :
             table[k] = c /\ \A j \in 1..(k - 1) : table[j] # c
    ELSE undefined

\* Striplog.to_log, the loop that assigns the values of the intervals
RECURSIVE to_log_loop(_, _, _, _, _, _, _, _)
to_log_loop(result, ivs, i, step, first, last, table, undefined) ==
    IF i > Len(ivs) THEN result
    ELSE LET iv == ivs[i]
             key == table_key(table, primary(iv).val, undefined)
             top_index == CeilDiv(Max2(first, iv.top) - first, step)
             base_index == CeilDiv(Min2(last, iv.base) - first, step)
         IN  to_log_loop(PySliceSet(result, top_index, base_index + 1, key),
                         ivs, i + 1, step, first, last, table, undefined)

\* Striplog.to_log(step, start, stop, table, undefined) with a number for
\* undefined; 0 for start_arg or stop_arg is falsy, as the None left out is.
\* Returns the array of the samples.
to_log(lst, ord, step, start_arg, stop_arg, table, undefined) ==
    LET first == IF start_arg = 0 THEN start(lst, ord) ELSE start_arg
        last == IF stop_arg = 0 THEN stop(lst, ord) ELSE stop_arg
        pts == CeilDiv(last - first, step) + 1
    IN  IF pts < 0 THEN Raise("ValueError")
        ELSE LET start_ix == read_at(lst, first)
                 stop_at == read_at(lst, last)
                 stop_ix == IF stop_at = None THEN None
                            ELSE [tag |-> "index", ix |-> stop_at.ix + 1]
             IN  With(getitem_slice(lst, start_ix, stop_ix), LAMBDA part :
                     IF Raised(part) THEN part
                     ELSE IF part.val = None THEN Raise("TypeError")
                     ELSE Return(to_log_loop([k \in 1..pts |-> 0], part.val.list, 1,
                                             step, first, last, table, undefined)))

-----------------------------------------------------------------------------
(* striplog/striplog.py: priority compositing *)

Event(tb, depth, idx) == [tb |-> tb, depth |-> depth, idx |-> idx]

\* the table left as the loop built it, without the sort
TableAsListed(table) == table

\* sorted(table, key=lambda x: x[1]) is stable
SortByDepth(table) ==
    LET place(i) == Cardinality({j \in 1..Len(table) :
                        \/ table[j].depth < table[i].depth
                        \/ table[j].depth = table[i].depth /\ j <= i})
    IN  [p \in 1..Len(table) |-> table[CHOOSE i \in 1..Len(table) : place(i) = p]]

\* Striplog._table: the top and the base of interval i, for each i, by depth
_table(lst) ==
    SortByDepth([k \in 1..(2 * Len(lst)) |->
                    IF k % 2 = 1 THEN Event("T", lst[(k + 1) \div 2].top, (k - 1) \div 2)
                    ELSE Event("B", lst[k \div 2].base, (k - 1) \div 2)])

Attrs == {"top", "base", "thickness", "prio"}

\* getattr(iv, attr), and after an AttributeError getattr(iv.primary, attr):
\* top, base and thickness are the Interval's, prio is the component's
attr_of(iv, attr) ==
    IF attr = "top" THEN Return(iv.top)
    ELSE IF attr = "base" THEN Return(iv.base)
    ELSE IF attr = "thickness" THEN Return(thickness(iv))
    ELSE IF iv.comps = <<>> THEN Raise("AttributeError")
    ELSE Return(iv.comps[1])

\* the stack left as it was pushed, without the sort
stack_as_pushed(lst, attr, reverse, stack) == stack

\* sorted(stack, key=..., reverse=reverse) is stable; every index of stack
\* has the attribute
sort_stack(lst, attr, reverse, stack) ==
    LET key(i) == attr_of(lst[stack[i] + 1], attr).val
        place(i) == Cardinality({j \in 1..Len(stack) :
                        \/ IF reverse THEN key(j) > key(i) ELSE key(j) < key(i)
                        \/ key(j) = key(i) /\ j <= i})
    IN  [p \in 1..Len(stack) |-> stack[CHOOSE i \in 1..Len(stack) : place(i) = p]]

\* list.remove(x): without the first x
remove_first(seq, x) ==
    LET k == CHOOSE i \in 1..Len(seq) : seq[i] = x /\ \A j \in 1..(i - 1) : seq[j] # x
    IN  SubSeq(seq, 1, k - 1) \o SubSeq(seq, k + 1, Len(seq))

\* the loop of _merge_table over the interfaces left in table
RECURSIVE merge_table_loop(_, _, _, _, _, _)
merge_table_loop(lst, attr, reverse, table, merged, stack) ==
    IF table = <<>> THEN Return(merged)
    ELSE
    LET interface == Head(table)
        depth == interface.depth
        idx == interface.idx
        this == attr_of(lst[idx + 1], attr)
        current == attr_of(lst[stack[Len(stack)] + 1], attr)
        merge == IF stack = <<>> THEN TRUE
                 ELSE IF reverse THEN this.val <= current.val
                 ELSE this.val >= current.val
    IN  IF stack # <<>> /\ Raised(this) THEN this
        ELSE IF interface.tb = "T" THEN
            IF Raised(this) THEN this    \* the sort after the append raises
            ELSE
            LET ended == IF merge /\ stack # <<>>
                         THEN Append(merged, Event("B", depth, stack[Len(stack)]))
                         ELSE merged
                merged2 == IF merge THEN Append(ended, interface) ELSE merged
            IN  merge_table_loop(lst, attr, reverse, Tail(table), merged2,
                                 sort_stack(lst, attr, reverse, Append(stack, idx)))
        ELSE
            IF stack = <<>> THEN Raise("IndexError")
            ELSE
            LET have_merged == idx = stack[Len(stack)]
                merged2 == IF have_merged THEN Append(merged, interface) ELSE merged
            IN  IF \A i \in 1..Len(stack) : stack[i] # idx THEN Raise("ValueError")
                ELSE
                LET stack2 == remove_first(stack, idx)
                    merged3 == IF stack2 # <<>> /\ have_merged
                               THEN Append(merged2, Event("T", depth, stack2[Len(stack2)]))
                               ELSE merged2
                IN  merge_table_loop(lst, attr, reverse, Tail(table), merged3, stack2)

\* Striplog._merge_table: the merged table, or an exception
_merge_table(lst, attr, reverse) ==
    merge_table_loop(lst, attr, reverse, _table(lst), <<>>, <<>>)

\* zip(table[::2], table[1::2]) from the row first on: the Intervals of the
\* pairs of rows that have a thickness, each a copy of the interval of its top
\* row with the top and the base of the pair
RECURSIVE intervals_of_table_from(_, _, _)
intervals_of_table_from(lst, table, first) ==
    IF Len(table) < first + 1 THEN <<>>
    ELSE LET top == table[first]
             bot == table[first + 1]
             rest == intervals_of_table_from(lst, table, first + 2)
         IN  IF top.depth = bot.depth THEN rest
             ELSE <<[lst[top.idx + 1] EXCEPT !.top = top.depth, !.base = bot.depth]>> \o rest

\* a pairing that starts one row late
intervals_paired_late(lst, table) == intervals_of_table_from(lst, table, 2)

\* the list m that _striplog_from_merge_table builds
intervals_of_table(lst, table) == intervals_of_table_from(lst, table, 1)

\* Striplog._striplog_from_merge_table
_striplog_from_merge_table(lst, table) == NewStriplog(intervals_of_table(lst, table))

\* Striplog.merge: a new Striplog, or an exception
merge(lst, attr, reverse) ==
    LET m == _merge_table(lst, attr, reverse)
    IN  IF Raised(m) THEN m ELSE _striplog_from_merge_table(lst, m.val)

-----------------------------------------------------------------------------
(* Construction as a state machine: nothing exists, then Striplog(...) is  *)
(* called once.                                                            *)

NoCall == [op |-> "none"]

InitNew ==
    /\ list = <<>>
    /\ order = "unset"
    /\ call = NoCall

New ==
    /\ call.op = "none"
    /\ \E loi \in SeqsUpTo(IntervalsOver(NewZ, {<<>>, <<1>>}), NewLen), ord \in Orders :
          LET r == Striplog(loi, ord)
          IN  /\ call' = [op |-> "new", loi |-> loi, ord |-> ord, err |-> r.err]
              /\ IF Raised(r)
                 THEN UNCHANGED <<list, order>>
                 ELSE list' = r.val.list /\ order' = r.val.order

NextNew == New

SpecNew == InitNew /\ [][NextNew]_vars

-----------------------------------------------------------------------------
(* The interval algebra as a state machine: each step calls one operation  *)
(* of Interval on arguments drawn from the grid.                           *)

AlgZ == 4        \* interval algebra: coordinates range over 0..AlgZ

AlgIntervals == IntervalsOver(AlgZ, {<<>>, <<1>>, <<2>>})

InitAlgebra == InitNew

Explode ==
    /\ call.op = "none"
    /\ \E a \in AlgIntervals, b \in AlgIntervals :
        /\ call' = [op |-> "_explode", self |-> a, other |-> b, ret |-> _explode(a, b)]
        /\ UNCHANGED <<list, order>>

SplitAt ==
    /\ call.op = "none"
    /\ \E iv \in AlgIntervals, d \in 0..AlgZ :
        /\ call' = [op |-> "split_at", self |-> iv, d |-> d, ret |-> split_at(iv, d)]
        /\ UNCHANGED <<list, order>>

Union ==
    /\ call.op = "none"
    /\ \E a \in AlgIntervals, b \in AlgIntervals, blend \in BOOLEAN :
        /\ call' = [op |-> "union", self |-> a, other |-> b, blend |-> blend,
                    ret |-> union(a, b, blend)]
        /\ UNCHANGED <<list, order>>

Relationship ==
    /\ call.op = "none"
    /\ \E a \in AlgIntervals, b \in AlgIntervals :
        /\ call' = [op |-> "relationship", self |-> a, other |-> b,
                    ret |-> relationship(a, b)]
        /\ UNCHANGED <<list, order>>

Intersect ==
    /\ call.op = "none"
    /\ \E a \in AlgIntervals, b \in AlgIntervals, blend \in BOOLEAN :
        /\ call' = [op |-> "intersect", self |-> a, other |-> b, blend |-> blend,
                    ret |-> intersect(a, b, blend)]
        /\ UNCHANGED <<list, order>>

Difference ==
    /\ call.op = "none"
    /\ \E a \in AlgIntervals, b \in AlgIntervals :
        /\ call' = [op |-> "difference", self |-> a, other |-> b,
                    ret |-> difference(a, b)]
        /\ UNCHANGED <<list, order>>

MergeIntervals ==
    /\ call.op = "none"
    /\ \E a \in AlgIntervals, b \in AlgIntervals, blend \in BOOLEAN :
        /\ call' = [op |-> "interval_merge", self |-> a, other |-> b, blend |-> blend,
                    ret |-> merge_intervals(a, b, blend)]
        /\ UNCHANGED <<list, order>>

Kind ==
    /\ call.op = "none"
    /\ \E a \in AlgIntervals :
        /\ call' = [op |-> "kind", self |-> a, ret |-> kind(a)]
        /\ UNCHANGED <<list, order>>

NextAlgebra ==
    \/ Explode \/ SplitAt \/ Union
    \/ Relationship \/ Intersect \/ Difference \/ MergeIntervals \/ Kind

SpecAlgebra == InitAlgebra /\ [][NextAlgebra]_vars

-----------------------------------------------------------------------------
(* The container as a state machine: a Striplog is constructed, then its   *)
(* mutating operations are called on it, one after another.                *)

SpZ == 2         \* mutations: coordinates range over 0..SpZ
SpLen == 3       \* mutations: longest list constructed, or left by a call
SpKeys == 2      \* mutations: most keys handed to one item assignment or deletion

SpIntervals == IntervalsOver(SpZ, {<<1>>})

\* the Striplogs the constructor builds from the lists of at most n of S
InitConstructed(S, n) ==
    /\ call = NoCall
    /\ \E loi \in SeqsUpTo(S, n), ord \in Orders :
          LET r == Striplog(loi, ord)
          IN  /\ ~Raised(r)
              /\ list = r.val.list
              /\ order = r.val.order

\* the Intervals handed in bulk (to an assignment of several items, or as a
\* Striplog to insert or extend): one each way up, and a point
BulkIntervals == {Interval(0, 1, <<1>>), Interval(SpZ, 0, <<1>>), Interval(1, 1, <<1>>)}

\* the lists of intervals of a constructed Striplog handed in as an argument
ArgStriplogs == {r.val.list : r \in {rr \in {Striplog(loi, "auto") :
                     loi \in SeqsUpTo(BulkIntervals, SpKeys)} : ~Raised(rr)}}

Init == InitConstructed(SpIntervals, SpLen)

\* the call left the list as r.list and ended as r.err
Mutated(name, r) ==
    /\ list' = r.list
    /\ call' = [op |-> name, err |-> r.err]
    /\ UNCHANGED order

DoAppend ==
    /\ Len(list) < SpLen
    /\ \E item \in SpIntervals : Mutated("append", append(list, item))

DoInsert ==
    /\ Len(list) < SpLen
    /\ \E index \in 0..Len(list), item \in SpIntervals :
          Mutated("insert", insert(list, index, item))

DoInsertStriplog ==
    \E index \in 0..Len(list), items \in ArgStriplogs :
        /\ Len(list) + Len(items) <= SpLen
        /\ Mutated("insert", insert_striplog(list, index, items))

DoExtend ==
    \E items \in ArgStriplogs :
        /\ Len(list) + Len(items) <= SpLen
        /\ Mutated("extend", extend(list, items))

DoPop ==
    \E index \in 0..Len(list) : Mutated("pop", pop(list, index))

DoSetItem ==
    \E key \in 0..Len(list), value \in SpIntervals :
        Mutated("__setitem__", setitem(list, key, value))

DoSetItems ==
    \E keys \in SeqsUpTo(0..Len(list), SpKeys), values \in SeqsUpTo(BulkIntervals, SpKeys) :
        Mutated("__setitem__", setitem_list(list, keys, values))

DoDelItem ==
    \E key \in 0..Len(list) : Mutated("__delitem__", delitem(list, key))

DoDelItems ==
    \E keys \in SeqsUpTo(0..Len(list), SpKeys) :
        Mutated("__delitem__", delitem_list(list, keys))

DoInvert ==
    LET r == invert(list, order)
    IN  /\ list' = r.list
        /\ order' = r.order
        /\ call' = [op |-> "invert", err |-> r.err]

DoCrop ==
    \E lo \in 0..SpZ, hi \in 0..SpZ : Mutated("crop", crop(list, lo, hi))

DoMergeOverlaps ==
    LET r == merge_overlaps(list, order)
    IN  /\ Len(r.list) <= SpLen
        /\ Mutated("merge_overlaps", r)

Next ==
    \/ DoAppend \/ DoInsert \/ DoInsertStriplog \/ DoExtend \/ DoPop
    \/ DoSetItem \/ DoSetItems \/ DoDelItem \/ DoDelItems
    \/ DoInvert \/ DoCrop \/ DoMergeOverlaps

Spec == Init /\ [][Next]_vars

-----------------------------------------------------------------------------
(* merge_overlaps as a state machine: a Striplog is constructed, then      *)
(* merge_overlaps() is called on it once.                                  *)

OvZ == 4         \* merge_overlaps: coordinates range over 0..OvZ
OvLen == 3       \* merge_overlaps: longest interval list constructed

InitOverlaps == InitConstructed(IntervalsOver(OvZ, {<<1>>, <<2>>}), OvLen)

MergeOverlaps ==
    /\ call.op = "none"
    /\ LET r == merge_overlaps(list, order)
       IN  /\ list' = r.list
           /\ call' = [op |-> "merge_overlaps", self |-> list, err |-> r.err]
    /\ UNCHANGED order

NextOverlaps == MergeOverlaps

SpecOverlaps == InitOverlaps /\ [][NextOverlaps]_vars

-----------------------------------------------------------------------------
(* anneal as a state machine: a Striplog is constructed, then anneal() is  *)
(* called on it once. Coordinates are even, so that half a gap is exact.   *)

AnZ == 3         \* anneal: coordinates range over 0, 2 .. 2 * AnZ
AnLen == 3       \* anneal: longest interval list constructed

EvenIntervals(n, C) == {Interval(2 * t, 2 * b, c) : t \in 0..n, b \in 0..n, c \in C}

AnnealModes == {"middle", "down", "up"}

InitAnneal == InitConstructed(EvenIntervals(AnZ, {<<1>>}), AnLen)

Anneal ==
    /\ call.op = "none"
    /\ \E mode \in AnnealModes :
          call' = [op |-> "anneal", self |-> list, mode |-> mode,
                   ret |-> anneal(list, order, mode)]
    /\ UNCHANGED <<list, order>>

NextAnneal == Anneal

SpecAnneal == InitAnneal /\ [][NextAnneal]_vars

-----------------------------------------------------------------------------
(* Priority compositing as a state machine: a Striplog is constructed,     *)
(* then merge() is called on it once.                                      *)

MgZ == 3         \* merge: coordinates range over 0..MgZ
MgLen == 3       \* merge: longest interval list constructed

InitMerge == InitConstructed(IntervalsOver(MgZ, {<<1>>, <<2>>}), MgLen)

Merge ==
    /\ call.op = "none"
    /\ \E attr \in Attrs, reverse \in BOOLEAN :
          call' = [op |-> "merge", self |-> list, attr |-> attr, reverse |-> reverse,
                   ret |-> merge(list, attr, reverse)]
    /\ UNCHANGED <<list, order>>

NextMerge == Merge

SpecMerge == InitMerge /\ [][NextMerge]_vars

-----------------------------------------------------------------------------
(* Receiver and result: a Striplog is constructed, then one of the         *)
(* operations that reshape it, or combine it with another Striplog, is     *)
(* called on it once. `list` is what the receiver holds; the call records  *)
(* what it held before (self), the argument (other) and what the call      *)
(* returned (ret). Coordinates are even, so that half a gap is exact.      *)

FrZ == 2         \* receiver and result: coordinates range over 0, 2 .. 2 * FrZ
FrLen == 3       \* receiver and result: longest interval list constructed
FrArgLen == 2    \* receiver and result: longest Striplog handed in as an argument

InitFrame == InitConstructed(EvenIntervals(FrZ, {<<1>>}), FrLen)

\* the Striplogs handed in as an argument, as [list, order]
FrameArgs == {r.val : r \in {rr \in {Striplog(loi, "auto") :
                 loi \in SeqsUpTo(EvenIntervals(FrZ, {<<2>>}), FrArgLen)} : ~Raised(rr)}}

Prune ==
    /\ call.op = "none"
    /\ \E n \in 1..FrLen, keep_ends \in BOOLEAN :
          call' = [op |-> "prune", self |-> list, n |-> n, keep_ends |-> keep_ends,
                   ret |-> prune(list, order, 0, n, keep_ends)]
    /\ UNCHANGED <<list, order>>

Crop ==
    /\ call.op = "none"
    /\ \E lo \in 0..(2 * FrZ), hi \in 0..(2 * FrZ) :
          LET r == crop(list, lo, hi)
          IN  /\ list' = r.list
              /\ call' = [op |-> "crop", self |-> list, extent |-> <<lo, hi>>,
                          err |-> r.err]
    /\ UNCHANGED order

CropCopy ==
    /\ call.op = "none"
    /\ \E lo \in 0..(2 * FrZ), hi \in 0..(2 * FrZ) :
          call' = [op |-> "crop_copy", self |-> list, extent |-> <<lo, hi>>,
                   ret |-> crop_copy(list, lo, hi)]
    /\ UNCHANGED <<list, order>>

StriplogUnion ==
    /\ call.op = "none"
    /\ \E other \in FrameArgs :
          call' = [op |-> "union", self |-> list, other |-> other,
                   ret |-> Striplog_union(list, other.list)]
    /\ UNCHANGED <<list, order>>

StriplogIntersect ==
    /\ call.op = "none"
    /\ \E other \in FrameArgs :
          call' = [op |-> "intersect", self |-> list, other |-> other,
                   ret |-> Striplog_intersect(list, other.list)]
    /\ UNCHANGED <<list, order>>

Add ==
    /\ call.op = "none"
    /\ \E other \in FrameArgs :
          call' = [op |-> "__add__", self |-> list, other |-> other,
                   ret |-> add(list, other.list)]
    /\ UNCHANGED <<list, order>>

NextFrame ==
    \/ Prune \/ Anneal \/ MergeOverlaps \/ Crop
    \/ StriplogUnion \/ StriplogIntersect \/ Merge \/ Add \/ CropCopy

SpecFrame == InitFrame /\ [][NextFrame]_vars

-----------------------------------------------------------------------------
(* Gap and overlap detection as a state machine: a Striplog is             *)
(* constructed, then find_gaps() or find_overlaps() is called on it once.  *)

FdZ == 3         \* detection: coordinates range over 0..FdZ
FdLen == 3       \* detection: longest interval list constructed

InitFind == InitConstructed(IntervalsOver(FdZ, {<<1>>}), FdLen)

FindGaps ==
    /\ call.op = "none"
    /\ call' = [op |-> "find_gaps", ret |-> find_gaps(list, order, FALSE)]
    /\ UNCHANGED <<list, order>>

FindOverlaps ==
    /\ call.op = "none"
    /\ call' = [op |-> "find_overlaps", ret |-> find_overlaps(list, order, FALSE)]
    /\ UNCHANGED <<list, order>>

NextFind == FindGaps \/ FindOverlaps

SpecFind == InitFind /\ [][NextFind]_vars

-----------------------------------------------------------------------------
(* merge_neighbours as a state machine: a Striplog is constructed, then    *)
(* merge_neighbours() is called on it once.                                *)

NbZ == 3         \* merge_neighbours: coordinates range over 0..NbZ
NbLen == 3       \* merge_neighbours: longest interval list constructed

InitNeighbours == InitConstructed(IntervalsOver(NbZ, {<<1>>, <<1, 2>>}), NbLen)

MergeNeighbours ==
    /\ call.op = "none"
    /\ \E strict \in BOOLEAN :
          call' = [op |-> "merge_neighbours", self |-> list, strict |-> strict,
                   ret |-> merge_neighbours(list, strict)]
    /\ UNCHANGED <<list, order>>

NextNeighbours == MergeNeighbours

SpecNeighbours == InitNeighbours /\ [][NextNeighbours]_vars

-----------------------------------------------------------------------------
(* Item assignment as a state machine: a Striplog is constructed, then     *)
(* one item, or several items at once, are assigned to it.                 *)

ItZ == 2         \* item assignment: coordinates range over 0..ItZ
ItLen == 3       \* item assignment: longest interval list constructed
ItKeys == 2      \* item assignment: most keys or values handed to one assignment

InitItems == InitConstructed(IntervalsOver(ItZ, {<<1>>}), ItLen)

\* the Intervals assigned: they differ from the constructed ones in content
ItValues == {Interval(0, 1, <<2>>), Interval(ItZ, 0, <<2>>)}

SetItem ==
    /\ call.op = "none"
    /\ \E key \in 0..Len(list), value \in ItValues :
          LET r == setitem(list, key, value)
          IN  /\ list' = r.list
              /\ call' = [op |-> "setitem", self |-> list, key |-> key,
                          value |-> value, err |-> r.err]
    /\ UNCHANGED order

SetItems ==
    /\ call.op = "none"
    /\ \E keys \in SeqsUpTo(0..Len(list), ItKeys), values \in SeqsUpTo(ItValues, ItKeys) :
          LET r == setitem_list(list, keys, values)
          IN  /\ list' = r.list
              /\ call' = [op |-> "setitems", self |-> list, keys |-> keys,
                          values |-> values, err |-> r.err]
    /\ UNCHANGED order

NextItems == SetItem \/ SetItems

SpecItems == InitItems /\ [][NextItems]_vars

-----------------------------------------------------------------------------
(* The data of combined Intervals as a state machine: two Intervals with   *)
(* data maps are combined once, as intersect, merge and union combine them.*)

DataItems == 2   \* data maps: the items of the values are 1..DataItems

\* the keys a data map may hold
DataKeys == {"porosity", "age"}

DataValues == {Scalar(v) : v \in 1..DataItems} \cup {AList(<<1, 2>>), AList(<<>>)}
DataMaps == UNION {[D -> DataValues] : D \in SUBSET DataKeys}

InitData == InitNew

CombineData ==
    /\ call.op = "none"
    /\ \E self_data \in DataMaps, other_data \in DataMaps, blend \in BOOLEAN :
          call' = [op |-> "_combine", self |-> self_data, other |-> other_data,
                   blend |-> blend, ret |-> combined_data(self_data, other_data, blend)]
    /\ UNCHANGED <<list, order>>

NextData == CombineData

SpecData == InitData /\ [][NextData]_vars

-----------------------------------------------------------------------------
(* Rasterization as a state machine: a Striplog is constructed, then       *)
(* to_log() is called on it once.                                          *)

LgZ == 3         \* to_log: coordinates, start and stop range over 0..LgZ
LgLen == 2       \* to_log: longest interval list constructed
LgStep == 2      \* to_log: the step is 1..LgStep

\* the values given for `undefined`: the default and a sentinel
LgUndefined == {0, -1}

\* the look-up tables given: both components, or only the second
LgTables == {<<1, 2>>, <<2>>}

InitLog == InitConstructed(IntervalsOver(LgZ, {<<1>>, <<2>>}), LgLen)

ToLog ==
    /\ call.op = "none"
    /\ \E step \in 1..LgStep, start_arg \in 0..LgZ, stop_arg \in 0..LgZ,
          table \in LgTables, undefined \in LgUndefined :
          call' = [op |-> "to_log", step |-> step,
                   first |-> IF start_arg = 0 THEN start(list, order) ELSE start_arg,
                   last |-> IF stop_arg = 0 THEN stop(list, order) ELSE stop_arg,
                   table |-> table, undefined |-> undefined,
                   ret |-> to_log(list, order, step, start_arg, stop_arg, table, undefined)]
    /\ UNCHANGED <<list, order>>

NextLog == ToLog

SpecLog == InitLog /\ [][NextLog]_vars

-----------------------------------------------------------------------------
(* Copies as a state machine: an Interval iv is constructed; a copy c is   *)
(* taken of it, by copy() or as a piece of split_at(); then c or iv is     *)
(* changed, a few times.  `call` holds the heap, the two objects, what     *)
(* each showed when the copy was taken, and which of them were changed.    *)

CpZ == 1         \* copies: the middle of the top is 0..CpZ, the base lies below
CpSteps == 2     \* copies: most changes made after the copy

\* the Intervals constructed: the top with or without an uncertainty, with
\* or without data and components
InitCopy ==
    /\ list = <<>>
    /\ order = "unset"
    /\ \E z \in 0..CpZ, wide \in BOOLEAN, d \in {{}, {"porosity"}}, c \in {<<>>, <<1>>} :
          call = [op |-> "new",
                  heap |-> [pos |-> <<Position(z, IF wide THEN z - 1 ELSE z,
                                               IF wide THEN z + 1 ELSE z),
                                      Position(CpZ + 2, CpZ + 2, CpZ + 2)>>,
                            data |-> <<d>>, comps |-> <<c>>],
                  iv |-> [top |-> 1, base |-> 2, data |-> 1, comps |-> 1]]

\* the state after the copy c was taken by a call that left the heap h
Copied(name, h, c) ==
    /\ call' = [op |-> name, heap |-> h, iv |-> call.iv, c |-> c,
                iv_was |-> Shown(h, call.iv), c_was |-> Shown(h, c),
                changed |-> {}, steps |-> 0]
    /\ UNCHANGED <<list, order>>

Copy ==
    /\ call.op = "new"
    /\ LET r == Interval_copy(call.heap, call.iv) IN Copied("copy", r.heap, r.obj)

SplitCopy ==
    /\ call.op = "new"
    /\ \E upper \in BOOLEAN :
          LET r == split_pieces(call.heap, call.iv, CpZ + 1)
          IN  Copied("split_at", r.heap, IF upper THEN r.upper ELSE r.lower)

\* who ("iv" or "c") is changed by a call that leaves the heap and the object r
Change(who, r) ==
    /\ call' = [call EXCEPT !.heap = r.heap,
                            !.iv = IF who = "iv" THEN r.obj ELSE @,
                            !.c = IF who = "c" THEN r.obj ELSE @,
                            !.changed = @ \cup {who},
                            !.steps = @ + 1]
    /\ UNCHANGED <<list, order>>

CanChange == call.op \in {"copy", "split_at"} /\ call.steps < CpSteps

Target(who) == IF who = "iv" THEN call.iv ELSE call.c

InvertPositions ==
    /\ CanChange
    /\ \E who \in {"iv", "c"} : Change(who, Interval_invert(call.heap, Target(who)))

AssignTop ==
    /\ CanChange
    /\ \E who \in {"iv", "c"} : Change(who, set_top(call.heap, Target(who), CpZ + 1))

AssignBase ==
    /\ CanChange
    /\ \E who \in {"iv", "c"} : Change(who, set_base(call.heap, Target(who), CpZ + 1))

AddData ==
    /\ CanChange
    /\ \E who \in {"iv", "c"} : Change(who, add_data(call.heap, Target(who), "age"))

AddComponent ==
    /\ CanChange
    /\ \E who \in {"iv", "c"} : Change(who, add_component(call.heap, Target(who), 2))

NextCopy ==
    \/ Copy \/ SplitCopy
    \/ InvertPositions \/ AssignTop \/ AssignBase \/ AddData \/ AddComponent

SpecCopy == InitCopy /\ [][NextCopy]_vars

-----------------------------------------------------------------------------
(* Claims *)

\* how often x occurs in seq
Count(seq, x) == Cardinality({i \in 1..Len(seq) : seq[i] = x})
Range(seq) == {seq[i] : i \in 1..Len(seq)}
SameIntervals(s1, s2) ==
    /\ Len(s1) = Len(s2)
    /\ \A x \in Range(s1) \cup Range(s2) : Count(s1, x) = Count(s2, x)

\* tops of consecutive intervals agree with the direction of ord
TopsSorted(seq, ord) ==
    \A i \in 1..(Len(seq) - 1) :
        IF ord = "elevation" THEN seq[i].top >= seq[i + 1].top
        ELSE seq[i].top <= seq[i + 1].top

Constructed == call.op = "new" /\ call.err = "none"

\* C2: a Striplog the constructor accepts holds exactly the input intervals
\* (same count, same extents and contents) and the tops of every consecutive
\* pair agree with the order: ascending for depth and none, descending for
\* elevation.
ConstructorKeepsAndSorts ==
    Constructed => SameIntervals(list, call.loi) /\ TopsSorted(list, order)

\* an elevation striplog was built from a list given bottom-up
ConstructorSortedWitness ==
    /\ Constructed
    /\ order = "elevation"
    /\ Len(call.loi) >= 2
    /\ call.loi[1].top < call.loi[2].top
    /\ list # call.loi

\* the outcome the specification gives for a construction: an order or "error"
ExpectedOrder(loi, ord) ==
    IF loi = <<>> THEN "error"
    ELSE IF ord = "auto" THEN
        IF \A i \in 1..Len(loi) : loi[i].base = loi[i].top THEN "none"
        ELSE IF \A i \in 1..Len(loi) : loi[i].base >= loi[i].top THEN "depth"
        ELSE IF \A i \in 1..Len(loi) : loi[i].base <= loi[i].top THEN "elevation"
        ELSE "error"
    ELSE IF ord = "depth" /\ (\E i \in 1..Len(loi) : loi[i].base < loi[i].top) THEN "error"
    ELSE IF ord = "elevation" /\ (\E i \in 1..Len(loi) : loi[i].base > loi[i].top) THEN "error"
    ELSE IF ord = "none" /\ (\E i \in 1..Len(loi) : loi[i].base # loi[i].top) THEN "error"
    ELSE ord

\* C3: construction resolves 'auto' to none, depth or elevation in that order
\* of preference, raises StriplogError when the data fit no order, contradict
\* the explicit order or the list is empty, and creates no Striplog on error.
ConstructorResolvesOrder ==
    call.op = "new" =>
        IF ExpectedOrder(call.loi, call.ord) = "error"
        THEN call.err = "StriplogError" /\ list = <<>> /\ order = "unset"
        ELSE call.err = "none" /\ order = ExpectedOrder(call.loi, call.ord)

\* 'auto' met a list mixing both ways up and refused it
ConstructorOrderWitness ==
    /\ call.op = "new" /\ call.ord = "auto" /\ call.err = "StriplogError"
    /\ Len(call.loi) = 2
    /\ call.loi[1].top < call.loi[1].base /\ call.loi[2].top > call.loi[2].base

SumOfPieces(p) == thickness(p.upper) + thickness(p.middle) + thickness(p.lower)

ExplodeCase ==
    /\ call.op = "_explode"
    /\ IvOrder(call.self) = IvOrder(call.other)
    /\ any_overlaps(call.self, call.other)

\* C9: explode conservation: for two same-order Intervals a, b with
\* a.any_overlaps(b), the thicknesses of the three pieces of a._explode(b)
\* add up to the thickness of a.union(b).
ExplodeConservation ==
    ExplodeCase =>
        /\ ~Raised(call.ret)
        /\ union(call.self, call.other, TRUE).val.tag = "interval"
        /\ SumOfPieces(call.ret.val)
               = thickness(union(call.self, call.other, TRUE).val.iv)

\* a partial overlap in which other starts above self, exploded in three
\* pieces of positive thickness
ExplodeWitness ==
    /\ ExplodeCase
    /\ partially_overlaps(call.self, call.other)
    /\ call.other.top < call.self.top
    /\ ~Raised(call.ret)
    /\ thickness(call.ret.val.upper) > 0
    /\ thickness(call.ret.val.middle) > 0
    /\ thickness(call.ret.val.lower) > 0

SplitCase == call.op = "split_at" /\ spans(call.self, call.d)

\* C10: split/rejoin round trip: for every Interval iv and every d that iv
\* spans, its top and its base included, the union without blending of the
\* two pieces of iv.split_at(d) is one Interval as thick as iv.
SplitRejoin ==
    SplitCase =>
        /\ ~Raised(call.ret)
        /\ LET u == union(call.ret.val[1], call.ret.val[2], FALSE)
           IN  u.val.tag = "interval" /\ thickness(u.val.iv) = thickness(call.self)

\* the intervals i and i+1 of lst (from 1) cover some depth twice: the upper
\* one's base lies beyond the lower one's top in the direction of ord
Overlap(lst, ord, i) ==
    IF ord = "elevation" THEN lst[i].base < lst[i + 1].top
    ELSE lst[i].base > lst[i + 1].top

\* merge_overlaps() was called on a striplog with overlapping neighbours
HadOverlaps ==
    /\ call.op = "merge_overlaps"
    /\ \E i \in 1..(Len(call.self) - 1) : Overlap(call.self, order, i)

\* C4: merge-overlaps convergence: when some consecutive intervals of s
\* overlap, wherever they are, merge_overlaps() returns and find_overlaps()
\* then returns None.
MergeOverlapsConverges ==
    HadOverlaps =>
        /\ call.err = "none"
        /\ find_overlaps(list, order, FALSE) = Return(None)

\* every interval of seq satisfies the base/top relation of ord
RightWayUp(seq, ord) ==
    \A i \in 1..Len(seq) :
        IF ord = "depth" THEN seq[i].base >= seq[i].top
        ELSE IF ord = "elevation" THEN seq[i].base <= seq[i].top
        ELSE seq[i].base = seq[i].top

\* C1: in every state reached from a constructed Striplog by its mutating
\* operations the intervals are sorted by top in the direction of the order
\* and every interval satisfies the order's base/top relation.
OrderInvariant == TopsSorted(list, order) /\ RightWayUp(list, order)

\* the intervals i and i+1 of lst (from 1) leave some depth between them
\* uncovered, in the direction of ord
Gap(lst, ord, i) ==
    IF ord = "elevation" THEN lst[i].base > lst[i + 1].top
    ELSE lst[i].base < lst[i + 1].top

\* the striplog anneal() leaves its caller with: the one it returns, or the
\* receiver when it returns None
Annealed ==
    IF call.ret.val = None THEN AStriplog(list, order) ELSE call.ret.val

\* C5: anneal closes all gaps: for every Striplog and every mode, anneal
\* returns, and the striplog it produces has no gap between consecutive
\* intervals: find_gaps() on it returns None.
AnnealClosesGaps ==
    call.op = "anneal" =>
        /\ ~Raised(call.ret)
        /\ find_gaps(Annealed.list, Annealed.order, FALSE) = Return(None)
        /\ Annealed.order \in {"depth", "elevation"} =>
               \A i \in 1..(Len(Annealed.list) - 1) :
                   ~Gap(Annealed.list, Annealed.order, i)

\* merge() was called on a depth-ordered Striplog of intervals that all have
\* a thickness (they all carry a component, hence every attribute)
MergeCase ==
    /\ call.op = "merge"
    /\ order = "depth"
    /\ \A i \in 1..Len(list) : list[i].top < list[i].base

\* the unit cells [z, z+1] that the intervals of a depth-ordered lst cover
Covered(lst) ==
    {z \in 0..(MgZ + 1) : \E i \in 1..Len(lst) : lst[i].top <= z /\ z < lst[i].base}

\* C6: priority compositing produces a partition: for a depth-ordered
\* Striplog of positive-thickness intervals, the intervals of merge(attr,
\* reverse) are pairwise non-overlapping and cover exactly the depths that
\* the intervals of the Striplog cover.
MergePartition ==
    MergeCase =>
        /\ ~Raised(call.ret)
        /\ LET out == call.ret.val.list
           IN  /\ \A i \in 1..Len(out) : \A j \in (i + 1)..Len(out) :
                      out[i].base <= out[j].top
               /\ Covered(out) = Covered(list)

\* an interval nested in a longer one cut it in two
MergePartitionWitness ==
    /\ MergeCase
    /\ ~Raised(call.ret)
    /\ Len(list) = 2
    /\ list[1].top < list[2].top /\ list[2].base < list[1].base
    /\ Len(call.ret.val.list) = 3

\* the source interval i of lst (from 1) spans the whole of o
SpansAll(lst, i, o) ==
    /\ Min2(lst[i].top, lst[i].base) <= Min2(o.top, o.base)
    /\ Max2(o.top, o.base) <= Max2(lst[i].top, lst[i].base)

\* source i wins o: it spans o, o has its content, and no source spanning o
\* has more of attr (less when reverse)
Wins(lst, attr, reverse, i, o) ==
    /\ SpansAll(lst, i, o)
    /\ o.comps = lst[i].comps
    /\ \A j \in 1..Len(lst) :
          SpansAll(lst, j, o) =>
              IF reverse
              THEN attr_of(lst[i], attr).val <= attr_of(lst[j], attr).val
              ELSE attr_of(lst[i], attr).val >= attr_of(lst[j], attr).val

\* C7: priority compositing picks the winner: every output interval of
\* merge(attr, reverse) carries the content of a source interval that spans
\* it and whose attr is the greatest (the least when reverse) among the
\* source intervals spanning it.
MergeWinner ==
    (call.op = "merge" /\ ~Raised(call.ret)) =>
        \A k \in 1..Len(call.ret.val.list) :
            \E i \in 1..Len(list) :
                Wins(list, call.attr, call.reverse, i, call.ret.val.list[k])

\* two sources of different priority overlap partly; by priority, the one
\* that starts higher up keeps the overlap
MergeWinnerWitness ==
    /\ call.op = "merge" /\ call.attr = "prio" /\ ~call.reverse
    /\ ~Raised(call.ret)
    /\ Len(list) = 2
    /\ list[1].comps = <<2>> /\ list[2].comps = <<1>>
    /\ list[1].top < list[2].top /\ list[2].top < list[1].base
    /\ list[1].base < list[2].base
    /\ Len(call.ret.val.list) = 2
    /\ call.ret.val.list[1] = list[1]
    /\ call.ret.val.list[2].top = list[1].base

\* C8: priority-merge idempotence: when merge(attr) succeeds, merge(attr)
\* of its result is identical to the result: as many intervals, each with
\* the same top, base and content.
MergeIdempotent ==
    (call.op = "merge" /\ ~call.reverse /\ ~Raised(call.ret)) =>
        merge(call.ret.val.list, call.attr, FALSE) = call.ret

\* the first merge composited overlapping intervals: its result is not what
\* it was given
MergeIdempotentWitness ==
    /\ call.op = "merge" /\ ~call.reverse /\ ~Raised(call.ret)
    /\ \E i \in 1..(Len(list) - 1) : Overlap(list, order, i)
    /\ call.ret.val.list # list
    /\ Len(call.ret.val.list) >= 2

\* C11: difference of a container: whenever self completely contains other,
\* self.difference(other) returns exactly the two Intervals [self.top,
\* other.top] and [other.base, self.base], whose thicknesses add up to
\* self.thickness - other.thickness.
DifferenceOfContainer ==
    (call.op = "difference" /\ completely_contains(call.self, call.other)) =>
        /\ ~Raised(call.ret)
        /\ call.ret.val.tag = "pair"
        /\ LET upper == call.ret.val.items[1]
               lower == call.ret.val.items[2]
           IN  /\ upper.top = call.self.top /\ upper.base = call.other.top
               /\ lower.top = call.other.base /\ lower.base = call.self.base
               /\ thickness(upper) + thickness(lower)
                      = thickness(call.self) - thickness(call.other)

\* the open extents of a and b have a depth in common
InteriorsMeet(a, b) ==
    Max2(Min2(a.top, a.base), Min2(b.top, b.base))
        < Min2(Max2(a.top, a.base), Max2(b.top, b.base))

\* C12: difference of identical extents: when self and other have the same
\* top and the same base and a thickness, self.difference(other) returns
\* None; self comes back only when the two touch or do not overlap.
DifferenceOfIdentical ==
    call.op = "difference" =>
        /\ (/\ call.self.top = call.other.top
            /\ call.self.base = call.other.base
            /\ thickness(call.self) > 0) => call.ret = Return(None)
        /\ call.ret = Return([tag |-> "interval", iv |-> call.self])
               => ~InteriorsMeet(call.self, call.other)

SameOrderPair == IvOrder(call.self) = IvOrder(call.other)

\* C13: the relationship is converse-symmetric: for two same-order Intervals
\* a and b, shared tops and bases included, a partially overlaps b exactly
\* when b partially overlaps a, a touches b exactly when b touches a, a
\* contains b exactly when b is contained by a, and so a overlaps b exactly
\* when b overlaps a.
RelationshipConverse ==
    (call.op = "relationship" /\ SameOrderPair) =>
        LET a == call.self
            b == call.other
        IN  /\ partially_overlaps(a, b) = partially_overlaps(b, a)
            /\ touches(a, b) = touches(b, a)
            /\ completely_contains(a, b) = is_contained_by(b, a)
            /\ any_overlaps(a, b) = any_overlaps(b, a)

\* C14: intersect returns only the overlap region: for two same-order
\* Intervals a and b with a.any_overlaps(b), a.intersect(b) is an Interval
\* from the lower of the two tops to the upper of the two bases, in the
\* direction of the order.
IntersectIsOverlap ==
    (call.op = "intersect" /\ SameOrderPair /\ any_overlaps(call.self, call.other)) =>
        /\ ~Raised(call.ret)
        /\ IF IvOrder(call.self) = "depth"
           THEN /\ call.ret.val.top = Max2(call.self.top, call.other.top)
                /\ call.ret.val.base = Min2(call.self.base, call.other.base)
           ELSE /\ call.ret.val.top = Min2(call.self.top, call.other.top)
                /\ call.ret.val.base = Max2(call.self.base, call.other.base)

\* the uppermost top and the lowermost base of a and b, in the direction of
\* the order of a
UppermostTop(a, b) ==
    IF IvOrder(a) = "depth" THEN Min2(a.top, b.top) ELSE Max2(a.top, b.top)
LowermostBase(a, b) ==
    IF IvOrder(a) = "depth" THEN Max2(a.base, b.base) ELSE Min2(a.base, b.base)

\* the intervals of seq follow one another in the direction ord from the top
\* `from` to the base `to`, each starting where the one before it ends
PartitionOf(seq, ord, from, to) ==
    /\ seq # <<>>
    /\ seq[1].top = from
    /\ seq[Len(seq)].base = to
    /\ \A i \in 1..Len(seq) :
          IF ord = "depth" THEN seq[i].top <= seq[i].base ELSE seq[i].top >= seq[i].base
    /\ \A i \in 1..(Len(seq) - 1) : seq[i].base = seq[i + 1].top

\* C15: Interval.merge yields a partition of the combined extent: for two
\* same-order Intervals a and b with a.any_overlaps(b) and either blend, the
\* Striplog of a.merge(b, blend) is sorted in the direction of the order,
\* its intervals do not overlap and cover the span from the uppermost top to
\* the lowermost base; it has three pieces, and exactly two when
\* a.partially_overlaps(b) and blend is False.
IntervalMergePartition ==
    (/\ call.op = "interval_merge"
     /\ SameOrderPair
     /\ any_overlaps(call.self, call.other)) =>
        /\ ~Raised(call.ret)
        /\ TopsSorted(call.ret.val.list, IvOrder(call.self))
        /\ PartitionOf(call.ret.val.list, IvOrder(call.self),
                       UppermostTop(call.self, call.other),
                       LowermostBase(call.self, call.other))
        /\ Len(call.ret.val.list) =
               IF partially_overlaps(call.self, call.other) /\ ~call.blend THEN 2 ELSE 3

\* C16: union extent and disjoint policy: when a touches or overlaps b,
\* a.union(b) is one Interval from the uppermost of the two tops to the
\* lowermost of the two bases; when they neither touch nor overlap it raises
\* nothing and returns the unmodified pair (a, b).
UnionExtent ==
    (call.op = "union" /\ call.blend) =>
        IF touches(call.self, call.other) \/ any_overlaps(call.self, call.other)
        THEN /\ ~Raised(call.ret)
             /\ call.ret.val.tag = "interval"
             /\ call.ret.val.iv.top = UppermostTop(call.self, call.other)
             /\ call.ret.val.iv.base = LowermostBase(call.self, call.other)
        ELSE call.ret = Return([tag |-> "pair", items |-> <<call.self, call.other>>])

\* the operations said to reshape the receiver, and those said to return a
\* new Striplog
InPlaceOps == {"prune", "anneal", "merge_overlaps", "crop"}
NewStriplogOps == {"union", "intersect", "merge"}

\* the intervals the call made: the list of the Striplog it returned, or,
\* for a call that returns nothing, the list it left
Made ==
    IF call.op \in {"prune", "anneal"} THEN call.ret.val.list ELSE list

\* C17: prune, anneal, merge_overlaps and crop change the Striplog they are
\* called on in place: after the call the receiver holds the intervals the
\* call made. Striplog.union, Striplog.intersect and Striplog.merge return a
\* new Striplog and leave the receiver as it was.
InPlaceOrNew ==
    /\ (/\ call.op \in {"prune", "anneal"}
        /\ ~Raised(call.ret)
        /\ call.ret.val # None) => list = Made
    /\ (call.op = "merge_overlaps" /\ call.err = "none") =>
           list = merge_overlaps(call.self, order).list
    /\ (call.op = "crop" /\ call.err = "none") =>
           list = crop_list(call.self, call.extent[1], call.extent[2]).val
    /\ call.op \in NewStriplogOps =>
           /\ list = call.self
           /\ ~Raised(call.ret) => call.ret.val.tag = "striplog"

\* every interval of seq has its top strictly on the side the order o says
AllOriented(seq, o) ==
    \A i \in 1..Len(seq) :
        IF o = "elevation" THEN seq[i].top > seq[i].base ELSE seq[i].top < seq[i].base

\* the tops and bases of the intervals of seq
Boundaries(seq) == {seq[i].top : i \in 1..Len(seq)} \cup {seq[i].base : i \in 1..Len(seq)}

\* s1 + s2 was called on two Striplogs whose intervals all lie the way o says
AddCase(o) ==
    /\ call.op = "__add__"
    /\ AllOriented(call.self, o)
    /\ AllOriented(call.other.list, o)

\* C18: for two Striplogs whose intervals all have the same orientation,
\* s1 + s2 is a new Striplog of len(s1) + len(s2) intervals with the order of
\* that orientation, whose start is the smallest and whose stop is the
\* largest boundary of all the intervals; s1 is left as it was.
AdditionOfLikeOriented ==
    \A o \in {"depth", "elevation"} :
        AddCase(o) =>
            /\ ~Raised(call.ret)
            /\ call.ret.val.tag = "striplog"
            /\ Len(call.ret.val.list) = Len(call.self) + Len(call.other.list)
            /\ call.ret.val.order = o
            /\ \A z \in Boundaries(call.self \o call.other.list) :
                   /\ start(call.ret.val.list, call.ret.val.order) <= z
                   /\ stop(call.ret.val.list, call.ret.val.order) >= z
            /\ start(call.ret.val.list, call.ret.val.order)
                   \in Boundaries(call.self \o call.other.list)
            /\ stop(call.ret.val.list, call.ret.val.order)
                   \in Boundaries(call.self \o call.other.list)
            /\ list = call.self

\* two elevation Striplogs of two intervals each were added
AdditionWitness ==
    /\ AddCase("elevation")
    /\ Len(call.self) = 2
    /\ Len(call.other.list) = 2
    /\ ~Raised(call.ret)
    /\ Len(call.ret.val.list) = 4

\* the two ends of an interval, whichever way up it is
Extent(iv) == {iv.top, iv.base}

\* the region the neighbours i and i+1 of lst leave uncovered
GapRegion(lst, i) == {lst[i].base, lst[i + 1].top}

\* the region the neighbours i and i+1 of lst both cover: from the lower
\* one's top to the nearer of the two bases
OverlapRegion(lst, ord, i) ==
    {lst[i + 1].top,
     IF ord = "elevation" THEN Max2(lst[i].base, lst[i + 1].base)
     ELSE Min2(lst[i].base, lst[i + 1].base)}

\* ret is None when no pair is in Pairs, and else a Striplog with one
\* Interval per pair in Pairs, over the region of that pair
OnePerPair(ret, Pairs, Regions) ==
    IF Pairs = {} THEN ret = Return(None)
    ELSE /\ ~Raised(ret)
         /\ ret.val.tag = "striplog"
         /\ Len(ret.val.list) = Cardinality(Pairs)
         /\ \A i \in Pairs :
                Cardinality({k \in 1..Len(ret.val.list) :
                                Extent(ret.val.list[k]) = Regions[i]})
                    = Cardinality({j \in Pairs : Regions[j] = Regions[i]})

\* C19: gap and overlap detection follow the direction of the order: on a
\* depth-ordered and equally on an elevation-ordered Striplog, find_gaps()
\* returns one Interval per consecutive pair that leaves a region uncovered,
\* spanning that region, and find_overlaps() one Interval per consecutive
\* pair whose facing boundaries cross, spanning the doubly covered region;
\* each returns None when there is no such pair.
DetectionFollowsOrder ==
    order \in {"depth", "elevation"} =>
        /\ call.op = "find_gaps" =>
               OnePerPair(call.ret,
                          {i \in 1..(Len(list) - 1) : Gap(list, order, i)},
                          [i \in 1..(Len(list) - 1) |-> GapRegion(list, i)])
        /\ call.op = "find_overlaps" =>
               OnePerPair(call.ret,
                          {i \in 1..(Len(list) - 1) : Overlap(list, order, i)},
                          [i \in 1..(Len(list) - 1) |-> OverlapRegion(list, order, i)])

\* seq without the elements at the places in D
Removing(seq, D) ==
    LET keep == {i \in 1..Len(seq) : i \notin D}
    IN  [p \in 1..Cardinality(keep) |->
            seq[CHOOSE i \in keep : Cardinality({j \in keep : j <= i}) = p]]

\* D holds k places of seq, none of them thicker than a place left out of D
ThinnestPlaces(seq, D, k) ==
    /\ Cardinality(D) = k
    /\ \A d \in D : \A j \in (1..Len(seq)) \ D :
           thickness(seq[d]) <= thickness(seq[j])

\* prune(n=k) was called on a Striplog of more than k intervals
PruneCase == call.op = "prune" /\ Len(call.self) > call.n

\* C20: prune(n=k) on a Striplog of more than k intervals removes the k
\* thinnest: the result is the Striplog without k of its intervals, none of
\* them thicker than an interval that is kept, and the kept ones in their
\* order; with keep_ends=True the first and the last interval are kept.
PruneRemovesThinnest ==
    PruneCase =>
        /\ ~Raised(call.ret)
        /\ ~call.keep_ends =>
               \E D \in SUBSET (1..Len(call.self)) :
                   /\ ThinnestPlaces(call.self, D, call.n)
                   /\ call.ret.val.list = Removing(call.self, D)
        /\ call.keep_ends =>
               /\ call.ret.val.list # <<>>
               /\ Head(call.ret.val.list) = Head(call.self)
               /\ call.ret.val.list[Len(call.ret.val.list)] = call.self[Len(call.self)]

\* the sum of the thicknesses of the intervals of seq
RECURSIVE CumulativeThickness(_)
CumulativeThickness(seq) ==
    IF seq = <<>> THEN 0 ELSE thickness(Head(seq)) + CumulativeThickness(Tail(seq))

\* C21: merge_neighbours never errors and merges every mergeable run: for
\* every Striplog, one of a single interval included, merge_neighbours(strict)
\* returns a new Striplog of the same extent and cumulative thickness in which
\* no two consecutive intervals both touch and match; the receiver is
\* unchanged.
NeighboursMerged ==
    call.op = "merge_neighbours" =>
        /\ ~Raised(call.ret)
        /\ call.ret.val.tag = "striplog"
        /\ Boundaries(call.ret.val.list) \subseteq Boundaries(call.self)
        /\ start(call.ret.val.list, call.ret.val.order) = start(call.self, order)
        /\ stop(call.ret.val.list, call.ret.val.order) = stop(call.self, order)
        /\ CumulativeThickness(call.ret.val.list) = CumulativeThickness(call.self)
        /\ \A i \in 1..(Len(call.ret.val.list) - 1) :
               ~(/\ touches(call.ret.val.list[i], call.ret.val.list[i + 1])
                 /\ similar(call.ret.val.list[i], call.ret.val.list[i + 1], call.strict))
        /\ list = call.self

\* crop((a, b)) was called on a depth-ordered Striplog with a < b, both of
\* them at a depth some interval spans
CropCase ==
    /\ call.op \in {"crop", "crop_copy"}
    /\ order = "depth"
    /\ call.extent[1] < call.extent[2]
    /\ read_at(call.self, call.extent[1]) # None
    /\ read_at(call.self, call.extent[2]) # None

\* the call ended without an exception
CropEnded == IF call.op = "crop" THEN call.err = "none" ELSE ~Raised(call.ret)

\* the intervals the crop produced: the receiver's, or the returned copy's
Cropped == IF call.op = "crop" THEN list ELSE call.ret.val.list

\* C22: crop yields the requested extent: for a depth-ordered Striplog and
\* a < b inside it, in different intervals or in the same one, after
\* crop((a, b)) the Striplog, or the copy returned with copy=True, starts at
\* a, stops at b and has every interval within [a, b]; with copy=True the
\* receiver is unchanged.
CropYieldsExtent ==
    CropCase =>
        /\ CropEnded
        /\ start(Cropped, "depth") = call.extent[1]
        /\ stop(Cropped, "depth") = call.extent[2]
        /\ \A z \in Boundaries(Cropped) : call.extent[1] <= z /\ z <= call.extent[2]
        /\ call.op = "crop_copy" => list = call.self

\* s[[i1, ..., ik]] = values was called with valid indices and fewer values
\* than indices
TooFewValues ==
    /\ call.op = "setitems"
    /\ Len(call.values) < Len(call.keys)
    /\ \A i \in 1..Len(call.keys) : call.keys[i] < Len(call.self)

\* C23: bulk item assignment fails atomically: with fewer values than
\* indices it raises StriplogError and leaves every interval of the Striplog
\* as it was before the call.
BulkAssignmentAtomic ==
    TooFewValues =>
        /\ call.err = "StriplogError"
        /\ list = call.self

\* s[i] = iv was called with a valid index i
SetItemCase == call.op = "setitem" /\ call.key < Len(call.self)

\* C28: single-item assignment works at every index: for every valid index
\* i of a Striplog, i = 0 included, after s[i] = iv the interval at i is iv,
\* every other index holds what it held before, and the length is unchanged.
SetItemAtEveryIndex ==
    SetItemCase =>
        /\ call.err = "none"
        /\ Len(list) = Len(call.self)
        /\ list[call.key + 1] = call.value
        /\ \A j \in 1..Len(call.self) : j # call.key + 1 => list[j] = call.self[j]

\* C24: blended data maps keep every key: when two Intervals are combined
\* with blend=True the data of the result has exactly the keys of either
\* operand; a key of only one operand keeps that operand's value, and a key
\* of both holds the list of self's value(s) followed by other's.
BlendKeepsEveryKey ==
    (call.op = "_combine" /\ call.blend) =>
        /\ DOMAIN call.ret = DOMAIN call.self \cup DOMAIN call.other
        /\ \A k \in DOMAIN call.ret :
               call.ret[k] =
                   IF k \notin DOMAIN call.other THEN call.self[k]
                   ELSE IF k \notin DOMAIN call.self THEN call.other[k]
                   ELSE AList(call.self[k].items \o call.other[k].items)

\* the depth d lies in iv, its ends included; or strictly inside it
Within(iv, d) == Min2(iv.top, iv.base) <= d /\ d <= Max2(iv.top, iv.base)
StrictlyInside(iv, d) == Min2(iv.top, iv.base) < d /\ d < Max2(iv.top, iv.base)

\* to_log returned an array whose samples are a step apart from start to stop
LogCase ==
    /\ call.op = "to_log"
    /\ ~Raised(call.ret)
    /\ (call.last - call.first) % call.step = 0

\* the depth of the sample at place k (from 1)
SampleDepth(k) == call.first + (k - 1) * call.step

\* C25: rasterization sentinel: in the array to_log(step, start, stop,
\* undefined=u) returns, every sample whose depth lies in no interval of the
\* Striplog equals u, and every sample strictly inside an interval holds the
\* 1-based table index of an interval it is strictly inside.
SentinelWhereUndefined ==
    LogCase =>
        \A k \in 1..Len(call.ret.val) :
            /\ (\A i \in 1..Len(list) : ~Within(list[i], SampleDepth(k)))
                   => call.ret.val[k] = call.undefined
            /\ (\E i \in 1..Len(list) : StrictlyInside(list[i], SampleDepth(k)))
                   => \E i \in 1..Len(list) :
                          /\ StrictlyInside(list[i], SampleDepth(k))
                          /\ call.ret.val[k] =
                                 table_key(call.table, primary(list[i]).val, call.undefined)

\* C26: Interval copies are deep value copies: after c = iv.copy(), and for
\* a piece returned by split_at, no later change of c (inverting its
\* Positions, reassigning its top or base, adding to its data map or to its
\* component list) changes what iv shows, and no change of iv changes what
\* c shows.
CopyIsDeep ==
    call.op \in {"copy", "split_at"} =>
        /\ "iv" \notin call.changed => Shown(call.heap, call.iv) = call.iv_was
        /\ "c" \notin call.changed => Shown(call.heap, call.c) = call.c_was

\* C27: Interval.kind is 'point' if and only if the thickness of the
\* interval is 0, and 'interval' otherwise.
KindIsPointIffThin ==
    call.op = "kind" =>
        call.ret = IF thickness(call.self) = 0 THEN "point" ELSE "interval"

\* the Intervals a difference returned: none, one or two
Pieces(ret) ==
    IF ret.val = None THEN {}
    ELSE IF ret.val.tag = "pair" THEN {ret.val.items[1], ret.val.items[2]}
    ELSE {ret.val.iv}

\* piece lies within the extent of a
InExtentOf(piece, a) ==
    /\ Min2(a.top, a.base) <= Min2(piece.top, piece.base)
    /\ Max2(piece.top, piece.base) <= Max2(a.top, a.base)

\* C29: difference is total and sound: for two same-order Intervals a and b
\* in every configuration, a.difference(b) returns without raising, and each
\* Interval it returns lies within the extent of a and shares no interior
\* point with b.
DifferenceTotalAndSound ==
    (call.op = "difference" /\ SameOrderPair) =>
        /\ ~Raised(call.ret)
        /\ \A piece \in Pieces(call.ret) :
               /\ InExtentOf(piece, call.self)
               /\ ~InteriorsMeet(piece, call.other)

\* merge() was called on an elevation-ordered Striplog of intervals that all
\* have their top above their base (they all carry a component, hence attr)
ElevationMergeCase ==
    /\ call.op = "merge"
    /\ order = "elevation"
    /\ \A i \in 1..Len(list) : list[i].top > list[i].base

\* the unit cells [z, z+1] that the intervals of lst cover, either way up
CoveredCells(lst) ==
    {z \in 0..(MgZ + 1) : \E i \in 1..Len(lst) :
        Min2(lst[i].top, lst[i].base) <= z /\ z < Max2(lst[i].top, lst[i].base)}

\* C30: priority compositing is direction-aware: for an elevation-ordered
\* Striplog whose intervals all carry attr, merge(attr) completes without
\* error and returns non-overlapping intervals covering exactly the union of
\* the input extents, as it does for the mirrored depth-ordered Striplog.
ElevationMergePartition ==
    ElevationMergeCase =>
        /\ ~Raised(call.ret)
        /\ LET out == call.ret.val.list
           IN  /\ \A i \in 1..Len(out) : \A j \in (i + 1)..Len(out) :
                      ~InteriorsMeet(out[i], out[j])
               /\ CoveredCells(out) = CoveredCells(list)

=============================================================================
